---- MODULE Spec2Model ----
(***************************************************************************)
(* django-secrets-manager: the cascading settings resolver                 *)
(* (django_secrets/utils.py, django_secrets/__init__.py) and the lazily    *)
(* filled secret cache (django_secrets/__init__.py,                        *)
(* django_secrets/backends/aws_secrets_manager.py).                        *)
(*                                                                         *)
(* Python values are records [t |-> <type name>, v |-> <content>]; a str's *)
(* content is its sequence of characters, so iterating a str and splitting *)
(* it on ':' are computed, not assumed.                                    *)
(***************************************************************************)
EXTENDS Integers, Sequences, FiniteSets, TLC

VARIABLES
    settings_module,          \* the configuration source: attribute name -> value
    environ,                  \* os.environ: variable name -> str
    last,                     \* the last call made and what it gave back
    cls,                      \* the class of the process-wide SECRETS instance
    secrets,                  \* SECRETS._secrets: secret name -> parsed payload
    get_client_calls,         \* get_client invocations so far
    get_secret_value_calls,   \* the store's get_secret_value calls, per SecretId
    default_chain,            \* whether boto3's own credential chain finds credentials
    threads                   \* the frames of the threads inside get_secret_section

vars == <<settings_module, environ, last, cls, secrets, get_client_calls,
          get_secret_value_calls, default_chain, threads>>

(***************************************************************************)
(* Bounds of the model.                                                    *)
(***************************************************************************)
MaxNames == 2        \* longest candidate-name list tried by the resolver calls
MaxAttrs == 2        \* most attributes of the source and variables of environ, together
MaxBuilds == 2       \* get_client invocations after which no new fetch is started
MaxThreads == 2      \* threads that call get_secret_section at the same time

(***************************************************************************)
(* Python values.                                                          *)
(***************************************************************************)
PyNone == [t |-> "NoneType", v |-> <<>>]
Str(s) == [t |-> "str", v |-> s]
PyInt(d) == [t |-> "int", v |-> d]        \* d: the decimal digits
List(s) == [t |-> "list", v |-> s]
Dict(f) == [t |-> "dict", v |-> f]
Exc(name, args) == [t |-> name, v |-> args]

Return(x) == [raised |-> FALSE, v |-> x]
Raise(e) == [raised |-> TRUE, v |-> e]

\* bool(x)
Truthy(x) ==
    CASE x.t = "NoneType" -> FALSE
      [] x.t = "int" -> x.v # <<"0">>
      [] x.t = "dict" -> DOMAIN x.v # {}
      [] OTHER -> Len(x.v) > 0

Min(S) == CHOOSE i \in S : \A j \in S : i <= j

\* getattr(settings_module, name, None)
getattr(mod, name) == IF name \in DOMAIN mod THEN mod[name] ELSE PyNone

\* os.environ.get(name)
environ_get(name) == IF name \in DOMAIN environ THEN environ[name] ELSE PyNone

\* isinstance(names, typing.Iterable): a str is Iterable, like a list or a tuple
isinstance_Iterable(names) == names.t \in {"str", "list", "tuple", "dict"}

\* The names a `for name in names` loop visits: the items of a list or tuple,
\* the one-character strings of a str.
for_in(names) ==
    IF names.t = "str"
    THEN [i \in 1..Len(names.v) |-> <<names.v[i]>>]
    ELSE names.v

(***************************************************************************)
(* django_secrets/utils.py: setting                                        *)
(***************************************************************************)
\* a variant that searches the environment before the source
setting_env_first(names, default, mod, lookup_env, raise_exception) ==
    LET names1 == IF ~isinstance_Iterable(names) THEN List(<<names.v>>) ELSE names
        seq == for_in(names1)
        inMod == {i \in 1..Len(seq) : getattr(mod, seq[i]) # PyNone}
        inEnv == {i \in 1..Len(seq) : environ_get(seq[i]) # PyNone}
    IN  IF lookup_env /\ inEnv # {} THEN Return(environ_get(seq[Min(inEnv)]))
        ELSE IF inMod # {} THEN Return(getattr(mod, seq[Min(inMod)]))
        ELSE IF raise_exception THEN Raise(Exc("SettingKeyNotExists", names1))
        ELSE Return(default)

\* a variant that prefers a supplied default to raising
setting_default_wins(names, default, mod, lookup_env, raise_exception) ==
    LET names1 == IF ~isinstance_Iterable(names) THEN List(<<names.v>>) ELSE names
        seq == for_in(names1)
        inMod == {i \in 1..Len(seq) : getattr(mod, seq[i]) # PyNone}
        inEnv == {i \in 1..Len(seq) : environ_get(seq[i]) # PyNone}
    IN  IF inMod # {} THEN Return(getattr(mod, seq[Min(inMod)]))
        ELSE IF lookup_env /\ inEnv # {} THEN Return(environ_get(seq[Min(inEnv)]))
        ELSE IF raise_exception /\ default = PyNone
             THEN Raise(Exc("SettingKeyNotExists", names1))
        ELSE Return(default)

\* a variant that searches the environment whatever lookup_env says
setting_always_env(names, default, mod, lookup_env, raise_exception) ==
    LET names1 == IF ~isinstance_Iterable(names) THEN List(<<names.v>>) ELSE names
        seq == for_in(names1)
        inMod == {i \in 1..Len(seq) : getattr(mod, seq[i]) # PyNone}
        inEnv == {i \in 1..Len(seq) : environ_get(seq[i]) # PyNone}
    IN  IF inMod # {} THEN Return(getattr(mod, seq[Min(inMod)]))
        ELSE IF inEnv # {} THEN Return(environ_get(seq[Min(inEnv)]))
        ELSE IF raise_exception THEN Raise(Exc("SettingKeyNotExists", names1))
        ELSE Return(default)

setting(names, default, mod, lookup_env, raise_exception) ==
    LET names1 == IF ~isinstance_Iterable(names) THEN List(<<names.v>>) ELSE names
        seq == for_in(names1)
        \* the loop returns at the first name whose value is not None
        inMod == {i \in 1..Len(seq) : getattr(mod, seq[i]) # PyNone}
        inEnv == {i \in 1..Len(seq) : environ_get(seq[i]) # PyNone}
    IN  IF inMod # {} THEN Return(getattr(mod, seq[Min(inMod)]))
        ELSE IF lookup_env /\ inEnv # {} THEN Return(environ_get(seq[Min(inEnv)]))
        ELSE IF raise_exception THEN Raise(Exc("SettingKeyNotExists", names1))
        ELSE Return(default)

(***************************************************************************)
(* django_secrets/__init__.py: setting (the older helper)                  *)
(***************************************************************************)
\* a variant that never consults the environment
setting_legacy_no_env(names, default, mod, lookup_env, raise_exception) ==
    LET seq == for_in(names)
        inMod == {i \in 1..Len(seq) : Truthy(getattr(mod, seq[i]))}
    IN  IF inMod # {} THEN Return(getattr(mod, seq[Min(inMod)]))
        ELSE IF raise_exception THEN Raise(Exc("SettingKeyNotExists", names))
        ELSE Return(default)

setting_legacy(names, default, mod, lookup_env, raise_exception) ==
    LET seq == for_in(names)
        \* the loop returns at the first name whose value is truthy
        inMod == {i \in 1..Len(seq) : Truthy(getattr(mod, seq[i]))}
        inEnv == {i \in 1..Len(seq) : Truthy(environ_get(seq[i]))}
    IN  IF inMod # {} THEN Return(getattr(mod, seq[Min(inMod)]))
        ELSE IF lookup_env /\ inEnv # {} THEN Return(environ_get(seq[Min(inEnv)]))
        ELSE IF raise_exception THEN Raise(Exc("SettingKeyNotExists", names))
        ELSE Return(default)

(***************************************************************************)
(* The resolver's inputs.  Attribute and variable names are strings over   *)
(* {a, b}; "ab" is a name whose characters are names too.  A truthy value  *)
(* is tagged with where it is stored, so that the value a call returns     *)
(* tells which lookup produced it.                                         *)
(***************************************************************************)
NameUniverse == {<<"a">>, <<"b">>, <<"a", "b">>}

SourceKinds == {"None", "empty", "zero", "truthy"}
EnvKinds == {"empty", "truthy"}

ValueOf(where, name, kind) ==
    CASE kind = "None" -> PyNone
      [] kind = "empty" -> Str(<<>>)
      [] kind = "zero" -> PyInt(<<"0">>)
      [] OTHER -> Str(<<where>> \o name)

Domains == SUBSET NameUniverse

Sources ==
    UNION {{[n \in D |-> ValueOf("S", n, k[n])] : k \in [D -> SourceKinds]} : D \in Domains}

Environs ==
    UNION {{[n \in D |-> ValueOf("E", n, k[n])] : k \in [D -> EnvKinds]} : D \in Domains}

NameLists == UNION {[1..n -> NameUniverse] : n \in 0..MaxNames}

NamesArgs == {List(s) : s \in NameLists} \cup {Str(n) : n \in NameUniverse}

Defaults == {PyNone, Str(<<"d">>)}

NoCall ==
    [fn |-> "none", names |-> List(<<>>), default |-> PyNone, lookup_env |-> FALSE,
     raise_exception |-> FALSE, result |-> Return(PyNone)]

\* The state of a process that has not touched its SECRETS instance.
NoSecrets ==
    /\ cls = "AWSSecretsManagerSecrets"
    /\ secrets = <<>>
    /\ get_client_calls = 0
    /\ get_secret_value_calls = <<>>
    /\ default_chain = FALSE
    /\ threads = <<>>

InitSetting ==
    /\ settings_module \in Sources
    /\ environ \in Environs
    /\ Cardinality(DOMAIN settings_module) + Cardinality(DOMAIN environ) <= MaxAttrs
    /\ last = NoCall
    /\ NoSecrets

\* Each behaviour of SpecSetting is one call of one of the two helpers, which
\* are pure, on the configuration Init drew.
\* django_secrets.utils.setting(names, default, settings_module, lookup_env, raise_exception)
CallSetting(names, default, lookup_env, raise_exception) ==
    /\ last = NoCall
    /\ last' = [fn |-> "utils.setting", names |-> names, default |-> default,
                lookup_env |-> lookup_env, raise_exception |-> raise_exception,
                result |-> setting(names, default, settings_module, lookup_env,
                                   raise_exception)]
    /\ UNCHANGED <<settings_module, environ, cls, secrets, get_client_calls,
                   get_secret_value_calls, default_chain, threads>>

\* django_secrets.setting(names, default, settings_module, lookup_env, raise_exception)
CallSettingLegacy(names, default, lookup_env, raise_exception) ==
    /\ last = NoCall
    /\ last' = [fn |-> "django_secrets.setting", names |-> names, default |-> default,
                lookup_env |-> lookup_env, raise_exception |-> raise_exception,
                result |-> setting_legacy(names, default, settings_module, lookup_env,
                                          raise_exception)]
    /\ UNCHANGED <<settings_module, environ, cls, secrets, get_client_calls,
                   get_secret_value_calls, default_chain, threads>>

NextSetting ==
    \E names \in NamesArgs, default \in Defaults, lookup_env \in BOOLEAN,
       raise_exception \in BOOLEAN :
        \/ CallSetting(names, default, lookup_env, raise_exception)
        \/ CallSettingLegacy(names, default, lookup_env, raise_exception)

SpecSetting == InitSetting /\ [][NextSetting]_vars

(***************************************************************************)
(* Claims about the resolver, checked under SpecSetting.                   *)
(***************************************************************************)
UtilsCall == last.fn = "utils.setting"
LegacyCall == last.fn = "django_secrets.setting"
ListCall == last.names.t = "list"
Candidates == last.names.v

\* the source holds no value for the name: the attribute is absent or None
NoSourceValue(name) == name \notin DOMAIN settings_module \/ settings_module[name] = PyNone
EnvSet(name) == name \in DOMAIN environ
SourceMiss == \A i \in 1..Len(Candidates) : NoSourceValue(Candidates[i])
EnvMiss == \A i \in 1..Len(Candidates) : ~EnvSet(Candidates[i])

\* C1: when the source has a truthy value for the Nth candidate name and no
\* value for any earlier one, utils.setting returns the source's value for the
\* Nth name, whatever the environment holds.
C1_SourceValueWins ==
    (UtilsCall /\ ListCall) =>
        \A N \in 1..Len(Candidates) :
            ( /\ ~NoSourceValue(Candidates[N])
              /\ Truthy(settings_module[Candidates[N]])
              /\ \A j \in 1..(N - 1) : NoSourceValue(Candidates[j]) )
            => last.result = Return(settings_module[Candidates[N]])

\* C1's case: the second candidate is the first the source knows, the
\* environment is searched and sets the first candidate, and the source's
\* value came back.
C1_Witness ==
    /\ UtilsCall /\ ListCall /\ Len(Candidates) = 2 /\ last.lookup_env
    /\ NoSourceValue(Candidates[1])
    /\ ~NoSourceValue(Candidates[2]) /\ Truthy(settings_module[Candidates[2]])
    /\ EnvSet(Candidates[1])
    /\ last.result = Return(settings_module[Candidates[2]])

\* C2: when no candidate name resolves in the source or (if searched) the
\* environment, utils.setting raises SettingKeyNotExists carrying the original
\* candidate list if raise_exception is set (default supplied or not) and
\* returns the default otherwise; with raise_exception it never returns the
\* default, without it it never raises.
C2_MissingKey ==
    (UtilsCall /\ ListCall) =>
        /\ (SourceMiss /\ (last.lookup_env => EnvMiss)) =>
              last.result = IF last.raise_exception
                            THEN Raise(Exc("SettingKeyNotExists", last.names))
                            ELSE Return(last.default)
        /\ ~last.raise_exception => ~last.result.raised
        /\ (last.raise_exception /\ ~last.result.raised) =>
              \E i \in 1..Len(Candidates) :
                  \/ /\ ~NoSourceValue(Candidates[i])
                     /\ last.result.v = settings_module[Candidates[i]]
                  \/ /\ EnvSet(Candidates[i])
                     /\ last.result.v = environ[Candidates[i]]

\* C2's case: two candidates, a default supplied, nothing resolvable where the
\* call searched, and SettingKeyNotExists raised all the same.
C2_Witness ==
    /\ UtilsCall /\ ListCall /\ Len(Candidates) = 2
    /\ last.default # PyNone /\ last.raise_exception
    /\ SourceMiss /\ (last.lookup_env => EnvMiss)
    /\ last.result = Raise(Exc("SettingKeyNotExists", last.names))

\* C3: utils.setting given a single string treats it as a one-element candidate
\* list: the source's value for exactly that name, else the environment's, and
\* no other name (not the string's characters) is looked up.
C3_SingleStringIsOneName ==
    (UtilsCall /\ last.names.t = "str") =>
        LET name == last.names.v
        IN  /\ ~NoSourceValue(name) => last.result = Return(settings_module[name])
            /\ (NoSourceValue(name) /\ last.lookup_env /\ EnvSet(name)) =>
                  last.result = Return(environ[name])
            /\ (NoSourceValue(name) /\ ~(last.lookup_env /\ EnvSet(name))) =>
                  \/ last.result.raised
                  \/ last.result = Return(last.default)

\* C4: with no candidate found in the source, lookup_env makes utils.setting
\* search the environment over the same names in the same order and return the
\* first that is set; without lookup_env the environment has no influence.
C4_EnvironmentFallback ==
    (UtilsCall /\ ListCall) =>
        /\ (SourceMiss /\ last.lookup_env) =>
              \A N \in 1..Len(Candidates) :
                  (EnvSet(Candidates[N]) /\ \A j \in 1..(N - 1) : ~EnvSet(Candidates[j]))
                  => last.result = Return(environ[Candidates[N]])
        /\ (SourceMiss /\ ~last.lookup_env) =>
              last.result = IF last.raise_exception
                            THEN Raise(Exc("SettingKeyNotExists", last.names))
                            ELSE Return(last.default)
        /\ (~SourceMiss /\ ~last.lookup_env) =>
              \E i \in 1..Len(Candidates) :
                  /\ ~NoSourceValue(Candidates[i])
                  /\ last.result = Return(settings_module[Candidates[i]])

\* C4's case: nothing in the source, only the second candidate set in the
\* environment, and its value returned.
C4_Witness ==
    /\ UtilsCall /\ ListCall /\ Len(Candidates) = 2 /\ last.lookup_env
    /\ SourceMiss /\ ~EnvSet(Candidates[1]) /\ EnvSet(Candidates[2])
    /\ last.result = Return(environ[Candidates[2]])

\* a candidate whose value in the source or the environment is present but falsy
FalsyPresent(x) == x # PyNone /\ ~Truthy(x)
NoFalsyCandidate ==
    \A i \in 1..Len(Candidates) :
        /\ ~FalsyPresent(getattr(settings_module, Candidates[i]))
        /\ ~FalsyPresent(environ_get(Candidates[i]))

\* what the helper that was not called gives on the same arguments
OtherHelper ==
    IF UtilsCall
    THEN setting_legacy(last.names, last.default, settings_module, last.lookup_env,
                        last.raise_exception)
    ELSE setting(last.names, last.default, settings_module, last.lookup_env,
                 last.raise_exception)
UtilsResult == IF UtilsCall THEN last.result ELSE OtherHelper
LegacyResult == IF LegacyCall THEN last.result ELSE OtherHelper

\* C10: on a candidate list none of whose names has a present-but-falsy value
\* in the source or the environment the two helpers give the same value or the
\* same error; where they differ utils.setting has returned a falsy value that
\* is present and the older helper has not.
C10_HelpersAgree ==
    ((UtilsCall \/ LegacyCall) /\ ListCall) =>
        /\ NoFalsyCandidate => last.result = OtherHelper
        /\ UtilsResult # LegacyResult =>
              /\ ~UtilsResult.raised /\ FalsyPresent(UtilsResult.v)
              /\ \E i \in 1..Len(Candidates) :
                    \/ getattr(settings_module, Candidates[i]) = UtilsResult.v
                    \/ (last.lookup_env /\ environ_get(Candidates[i]) = UtilsResult.v)
              /\ ~(~LegacyResult.raised /\ FalsyPresent(LegacyResult.v))

\* C10's case: the older helper called on two candidates with no falsy value
\* anywhere, the value found under the second name in the environment, and the
\* same answer from utils.setting.
C10_Witness ==
    /\ LegacyCall /\ ListCall /\ Len(Candidates) = 2 /\ NoFalsyCandidate
    /\ SourceMiss /\ ~EnvSet(Candidates[1]) /\ EnvSet(Candidates[2])
    /\ last.result = Return(environ[Candidates[2]])
    /\ last.result = OtherHelper

(***************************************************************************)
(* The secret store and the payloads it holds.                             *)
(***************************************************************************)
S1 == Str(<<"s", "1">>)
S2 == Str(<<"s", "2">>)
S3 == Str(<<"s", "3">>)
S4 == Str(<<"s", "4">>)
SecretIds == {S1, S2, S3, S4}

\* SecretId -> SecretString; S4 is not a secret of the store
SecretStore ==
    (S1 :> "{\"a\": {\"b\": {\"c\": 1}}, \"k\": \"v\"}")
    @@ (S2 :> "{\"a\": 7, \"l\": [\"x\"], \"c\": \"top\"}")
    @@ (S3 :> "{\"a\": ")

\* client.get_secret_value(SecretId=...)['SecretString']
get_secret_value(SecretId) ==
    IF SecretId \in DOMAIN SecretStore
    THEN Return(SecretStore[SecretId])
    ELSE Raise(Exc("ClientError", <<>>))

\* json.loads on the SecretStrings above
json_loads(text) ==
    CASE text = "{\"a\": {\"b\": {\"c\": 1}}, \"k\": \"v\"}" ->
            Return(Dict((<<"a">> :> Dict(<<"b">> :> Dict(<<"c">> :> PyInt(<<"1">>))))
                        @@ (<<"k">> :> Str(<<"v">>))))
      [] text = "{\"a\": 7, \"l\": [\"x\"], \"c\": \"top\"}" ->
            Return(Dict((<<"a">> :> PyInt(<<"7">>))
                        @@ (<<"l">> :> List(<<Str(<<"x">>)>>))
                        @@ (<<"c">> :> Str(<<"t", "o", "p">>))))
      [] OTHER -> Raise(Exc("JSONDecodeError", <<>>))

\* str.split(sep) for a one-character separator: the pieces between the
\* separators, one more piece than there are separators
split(s, sep) ==
    LET at == {j \in 1..Len(s) : s[j] = sep}
        nth(k) == CHOOSE j \in at : Cardinality({i \in at : i < j}) = k - 1
        first(k) == IF k = 1 THEN 1 ELSE nth(k - 1) + 1
        final(k) == IF k = Cardinality(at) + 1 THEN Len(s) ELSE nth(k) - 1
    IN  [k \in 1..(Cardinality(at) + 1) |-> SubSeq(s, first(k), final(k))]

\* obj[key] for a str key: a mapping gives the value or KeyError; a list, a
\* str, a number or None gives TypeError
getitem(obj, key) ==
    IF obj.t = "dict"
    THEN IF key.v \in DOMAIN obj.v THEN Return(obj.v[key.v]) ELSE Raise(Exc("KeyError", <<key>>))
    ELSE Raise(Exc("TypeError", <<>>))

\* obj.get(key, default): only a mapping has get
dict_get(obj, key, default) ==
    IF obj.t = "dict"
    THEN IF key.v \in DOMAIN obj.v THEN Return(obj.v[key.v]) ELSE Return(default)
    ELSE Raise(Exc("AttributeError", <<>>))

\* for section_key in keys: secrets = secrets[section_key]
\* (after[i]: the loop's state after i keys; an exception ends the loop)
descend(obj, keys) ==
    LET after[i \in 0..Len(keys)] ==
            IF i = 0 THEN Return(obj)
            ELSE IF after[i - 1].raised THEN after[i - 1]
            ELSE getitem(after[i - 1].v, Str(keys[i]))
    IN  after[Len(keys)]

(***************************************************************************)
(* Class attributes (the same in both classes unless said).                *)
(***************************************************************************)
Tuple(s) == [t |-> "tuple", v |-> s]

secret_name_names ==
    Tuple(<<"AWS_SECRETS_MANAGER_SECRET_NAME", "AWS_SECRET_NAME",
            "AWS_SECRETS_MANAGER_SECRETS_NAME", "AWS_SECRETS_NAME">>)
secret_section_names ==
    Tuple(<<"AWS_SECRETS_MANAGER_SECRET_SECTION", "AWS_SECRET_SECTION",
            "AWS_SECRETS_MANAGER_SECRETS_SECTION", "AWS_SECRETS_SECTION">>)
secrets_name_names == Tuple(<<"AWS_SECRETS_MANAGER_SECRETS_NAME", "AWS_SECRETS_NAME">>)
secrets_section_names ==
    Tuple(<<"AWS_SECRETS_MANAGER_SECRETS_SECTION", "AWS_SECRETS_SECTION">>)
profile_names == Tuple(<<"AWS_SECRETS_MANAGER_PROFILE", "AWS_PROFILE">>)
access_key_names == Tuple(<<"AWS_SECRETS_MANAGER_ACCESS_KEY_ID", "AWS_ACCESS_KEY_ID">>)
secret_key_names ==
    Tuple(<<"AWS_SECRETS_MANAGER_SECRET_ACCESS_KEY", "AWS_SECRET_ACCESS_KEY">>)
region_name_names == Tuple(<<"AWS_SECRETS_MANAGER_REGION_NAME", "AWS_REGION_NAME">>)

Client == [t |-> "SecretsManager", v |-> <<>>]

(***************************************************************************)
(* django_secrets/backends/aws_secrets_manager.py: AWSSecretsManagerSecrets *)
(***************************************************************************)
\* session.get_credentials(): the keys or the profile handed to the session
\* (a named profile is taken to exist), else whatever boto3's own provider
\* chain (shared credentials file, instance role, ...) finds
session_get_credentials(credentials) ==
    IF credentials # {} THEN Return(Client)
    ELSE IF default_chain THEN Return(Client) ELSE Return(PyNone)

\* a variant that hands out a client without asking the session for credentials
get_client_unchecked(mod) == Return(Client)

get_client(mod) ==
    LET profile == setting(profile_names, PyNone, mod, TRUE, FALSE).v
        access_key == setting(access_key_names, PyNone, mod, TRUE, FALSE).v
        secret_key == setting(secret_key_names, PyNone, mod, TRUE, FALSE).v
        \* region_name goes to the session as it is, None included
        credentials ==
            IF Truthy(access_key) /\ Truthy(secret_key)
            THEN {"aws_access_key_id", "aws_secret_access_key"}
            ELSE IF Truthy(profile) THEN {"profile_name"}
            ELSE {}
    IN  IF session_get_credentials(credentials).v = PyNone
        THEN Raise(Exc("CredentialsNotExists", <<>>))
        ELSE Return(Client)

\* What a call leaves behind: its result, self._secrets, and whether it
\* called get_client and the store's get_secret_value.
Outcome(result, cache, built, fetched) ==
    [result |-> result, secrets |-> cache, built |-> built, fetched |-> fetched]

\* a variant that enters the name in the cache before its payload is built
setitem_unbuilt(cache, secret_name, parsed) ==
    [k \in DOMAIN cache \cup {secret_name} |-> IF k = secret_name THEN Dict(<<>>) ELSE cache[k]]

\* self._secrets[secret_name] = parsed
setitem(cache, secret_name, parsed) ==
    [k \in DOMAIN cache \cup {secret_name} |-> IF k = secret_name THEN parsed ELSE cache[k]]

\* a variant that fetches on every call
get_secret_section_refetch(secret_name, section) ==
    LET select(cache) ==
            IF ~Truthy(section) THEN Return(cache[secret_name])
            ELSE descend(cache[secret_name], split(section.v, ":"))
        store(parsed) ==
            IF parsed.raised THEN Outcome(parsed, secrets, TRUE, TRUE)
            ELSE Outcome(select(setitem(secrets, secret_name, parsed.v)),
                         setitem(secrets, secret_name, parsed.v), TRUE, TRUE)
        parse(response) ==
            IF response.raised THEN Outcome(response, secrets, TRUE, TRUE)
            ELSE store(json_loads(response.v))
        fetch(client) ==
            IF client.raised THEN Outcome(client, secrets, TRUE, FALSE)
            ELSE parse(get_secret_value(secret_name))
    IN  fetch(get_client(settings_module))

\* a variant that descends into the section even when it is the empty string
get_secret_section_always_descends(secret_name, section) ==
    LET select(cache) ==
            IF section = PyNone THEN Return(cache[secret_name])
            ELSE descend(cache[secret_name], split(section.v, ":"))
        store(parsed) ==
            IF parsed.raised THEN Outcome(parsed, secrets, TRUE, TRUE)
            ELSE Outcome(select(setitem(secrets, secret_name, parsed.v)),
                         setitem(secrets, secret_name, parsed.v), TRUE, TRUE)
        parse(response) ==
            IF response.raised THEN Outcome(response, secrets, TRUE, TRUE)
            ELSE store(json_loads(response.v))
        fetch(client) ==
            IF client.raised THEN Outcome(client, secrets, TRUE, FALSE)
            ELSE parse(get_secret_value(secret_name))
    IN  IF secret_name \in DOMAIN secrets
        THEN Outcome(select(secrets), secrets, FALSE, FALSE)
        ELSE fetch(get_client(settings_module))

\* a variant that gives None for a section key that is absent
get_secret_section_lenient(secret_name, section) ==
    LET select(cache) ==
            IF ~Truthy(section) THEN Return(cache[secret_name])
            ELSE LET r == descend(cache[secret_name], split(section.v, ":"))
                 IN  IF r.raised THEN Return(PyNone) ELSE r
        store(parsed) ==
            IF parsed.raised THEN Outcome(parsed, secrets, TRUE, TRUE)
            ELSE Outcome(select(setitem(secrets, secret_name, parsed.v)),
                         setitem(secrets, secret_name, parsed.v), TRUE, TRUE)
        parse(response) ==
            IF response.raised THEN Outcome(response, secrets, TRUE, TRUE)
            ELSE store(json_loads(response.v))
        fetch(client) ==
            IF client.raised THEN Outcome(client, secrets, TRUE, FALSE)
            ELSE parse(get_secret_value(secret_name))
    IN  IF secret_name \in DOMAIN secrets
        THEN Outcome(select(secrets), secrets, FALSE, FALSE)
        ELSE fetch(get_client(settings_module))

get_secret_section(secret_name, section) ==
    LET \* if not section: return secrets; else the loop over section.split(':')
        select(cache) ==
            IF ~Truthy(section) THEN Return(cache[secret_name])
            ELSE descend(cache[secret_name], split(section.v, ":"))
        \* self._secrets[secret_name] = json.loads(...)
        store(parsed) ==
            IF parsed.raised THEN Outcome(parsed, secrets, TRUE, TRUE)
            ELSE Outcome(select(setitem(secrets, secret_name, parsed.v)),
                         setitem(secrets, secret_name, parsed.v), TRUE, TRUE)
        parse(response) ==
            IF response.raised THEN Outcome(response, secrets, TRUE, TRUE)
            ELSE store(json_loads(response.v))
        \* client = self.get_client(...); client.get_secret_value(SecretId=secret_name)
        fetch(client) ==
            IF client.raised THEN Outcome(client, secrets, TRUE, FALSE)
            ELSE parse(get_secret_value(secret_name))
    IN  \* the settings module is the one given to the constructor
        IF secret_name \in DOMAIN secrets
        THEN Outcome(select(secrets), secrets, FALSE, FALSE)
        ELSE fetch(get_client(settings_module))

_get_section ==
    LET section_of(secret_name, secret_section) ==
            IF secret_name.raised
            THEN Outcome(secret_name, secrets, FALSE, FALSE)
            ELSE get_secret_section(secret_name.v, secret_section.v)
    IN  section_of(setting(secret_name_names, PyNone, settings_module, TRUE, TRUE),
                   setting(secret_section_names, PyNone, settings_module, TRUE, FALSE))

\* a variant of get that fails for an absent key
get_strict(key, default) ==
    LET lookup(o) ==
            IF o.result.raised THEN o
            ELSE Outcome(getitem(o.result.v, key), o.secrets, o.built, o.fetched)
    IN  lookup(_get_section)

get(key, default) ==
    LET \* secrets.get(key, default)
        lookup(o) ==
            IF o.result.raised THEN o
            ELSE Outcome(dict_get(o.result.v, key, default), o.secrets, o.built, o.fetched)
    IN  lookup(_get_section)

__getitem__(item) ==
    LET \* secrets[item]
        lookup(o) ==
            IF o.result.raised THEN o
            ELSE Outcome(getitem(o.result.v, item), o.secrets, o.built, o.fetched)
    IN  lookup(_get_section)

(***************************************************************************)
(* django_secrets/__init__.py: Secrets (the older class)                   *)
(***************************************************************************)
\* a variant that lets a call without credentials through
Secrets_get_client_unchecked(mod) == Return(Client)

Secrets_get_client(mod) ==
    LET profile == setting_legacy(profile_names, PyNone, mod, TRUE, FALSE).v
        access_key == setting_legacy(access_key_names, PyNone, mod, TRUE, FALSE).v
        secret_key == setting_legacy(secret_key_names, PyNone, mod, TRUE, FALSE).v
    IN  IF Truthy(access_key) /\ Truthy(secret_key) THEN Return(Client)
        ELSE IF Truthy(profile) THEN Return(Client)
        ELSE Raise(Exc("CredentialsNotExists", <<>>))

get_secrets_section(secrets_name, sections_string, mod) ==
    LET \* sections_string.split(':') (None has no split), then the loop
        select(cache) ==
            IF sections_string.t # "str" THEN Raise(Exc("AttributeError", <<>>))
            ELSE descend(cache[secrets_name], split(sections_string.v, ":"))
        store(parsed) ==
            IF parsed.raised THEN Outcome(parsed, secrets, TRUE, TRUE)
            ELSE Outcome(select(setitem(secrets, secrets_name, parsed.v)),
                         setitem(secrets, secrets_name, parsed.v), TRUE, TRUE)
        parse(response) ==
            IF response.raised THEN Outcome(response, secrets, TRUE, TRUE)
            ELSE store(json_loads(response.v))
        fetch(client) ==
            IF client.raised THEN Outcome(client, secrets, TRUE, FALSE)
            ELSE parse(get_secret_value(secrets_name))
    IN  IF secrets_name \in DOMAIN secrets
        THEN Outcome(select(secrets), secrets, FALSE, FALSE)
        ELSE fetch(Secrets_get_client(mod))

\* the first lines that get and __getitem__ share
Secrets_get_section ==
    LET section_of(secrets_name, secrets_section) ==
            IF secrets_name.raised
            THEN Outcome(secrets_name, secrets, FALSE, FALSE)
            ELSE get_secrets_section(secrets_name.v, secrets_section.v, settings_module)
    IN  section_of(setting_legacy(secrets_name_names, PyNone, settings_module, TRUE, TRUE),
                   setting_legacy(secrets_section_names, PyNone, settings_module, TRUE, FALSE))

Secrets_get(key, default) ==
    LET lookup(o) ==
            IF o.result.raised THEN o
            ELSE Outcome(dict_get(o.result.v, key, default), o.secrets, o.built, o.fetched)
    IN  lookup(Secrets_get_section)

Secrets_getitem(item) ==
    LET lookup(o) ==
            IF o.result.raised THEN o
            ELSE Outcome(getitem(o.result.v, item), o.secrets, o.built, o.fetched)
    IN  lookup(Secrets_get_section)

(***************************************************************************)
(* The process: one SECRETS instance of either class, its settings module  *)
(* and environment fixed at start-up, the store as above.                  *)
(***************************************************************************)
Empty == <<>>

\* where the secret's name is configured
NameSettings ==
    { [source |-> Empty, env |-> Empty],
      [source |-> ("AWS_SECRETS_NAME" :> S1), env |-> Empty],
      [source |-> Empty, env |-> ("AWS_SECRETS_MANAGER_SECRETS_NAME" :> S2)] }

\* where the section is configured: nowhere, as '' in the source, in the environment
SectionSettings ==
    { [source |-> Empty, env |-> Empty],
      [source |-> ("AWS_SECRETS_SECTION" :> Str(<<>>)), env |-> Empty],
      [source |-> Empty, env |-> ("AWS_SECRETS_MANAGER_SECRETS_SECTION" :> Str(<<"a", ":", "b">>))] }

\* the credentials: none, a key pair in the source, a profile in the
\* environment, an access key without its secret key
CredentialSettings ==
    { [source |-> Empty, env |-> Empty],
      [source |-> ("AWS_ACCESS_KEY_ID" :> Str(<<"A", "K">>))
                  @@ ("AWS_SECRET_ACCESS_KEY" :> Str(<<"S", "K">>)), env |-> Empty],
      [source |-> Empty, env |-> ("AWS_PROFILE" :> Str(<<"p">>))],
      [source |-> ("AWS_ACCESS_KEY_ID" :> Str(<<"A", "K">>)), env |-> Empty] }

Sections ==
    { PyNone, Str(<<>>), Str(<<"a", ":", "b">>), Str(<<"a", ":", "z">>),
      Str(<<"a", ":", "b", ":", "c", ":", "d">>), Str(<<"l", ":", "0">>), Str(<<"k", ":">>) }

Keys == {Str(<<"c">>), Str(<<"k">>), Str(<<"m">>)}
GetDefaults == {PyNone, PyInt(<<"4", "2">>)}

NoSecretCall ==
    [fn |-> "none", secret_name |-> PyNone, section |-> PyNone, key |-> PyNone,
     default |-> PyNone, cached |-> FALSE, result |-> Return(PyNone)]

Init ==
    /\ \E n \in NameSettings, s \in SectionSettings, c \in CredentialSettings :
          /\ settings_module = n.source @@ s.source @@ c.source
          /\ environ = n.env @@ s.env @@ c.env
    /\ cls \in {"AWSSecretsManagerSecrets", "Secrets"}
    /\ default_chain \in BOOLEAN
    /\ secrets = Empty
    /\ get_client_calls = 0
    /\ get_secret_value_calls = [id \in SecretIds |-> 0]
    /\ last = NoSecretCall
    /\ threads = <<>>

\* The effect of a call with outcome o on the instance and on the store's log.
Apply(fn, secret_name, section, key, default, o) ==
    /\ secrets' = o.secrets
    /\ get_client_calls' = get_client_calls + (IF o.built THEN 1 ELSE 0)
    /\ get_secret_value_calls' =
          IF o.fetched
          THEN [get_secret_value_calls EXCEPT ![secret_name] = @ + 1]
          ELSE get_secret_value_calls
    /\ last' = [fn |-> fn, secret_name |-> secret_name, section |-> section, key |-> key,
                default |-> default, cached |-> secret_name \in DOMAIN secrets,
                result |-> o.result]
    /\ UNCHANGED <<settings_module, environ, cls, default_chain, threads>>

\* no new fetch is started once get_client has been called MaxBuilds times
MayCall(secret_name) == secret_name \in DOMAIN secrets \/ get_client_calls < MaxBuilds

\* SECRETS.get_secret_section(secret_name, section)
GetSecretSection(secret_name, section) ==
    /\ cls = "AWSSecretsManagerSecrets"
    /\ MayCall(secret_name)
    /\ Apply("get_secret_section", secret_name, section, PyNone, PyNone,
             get_secret_section(secret_name, section))

\* the secret name and section that get and __getitem__ resolve from the settings
ResolvedName ==
    IF cls = "Secrets"
    THEN setting_legacy(secrets_name_names, PyNone, settings_module, TRUE, TRUE)
    ELSE setting(secret_name_names, PyNone, settings_module, TRUE, TRUE)
ResolvedSection ==
    IF cls = "Secrets"
    THEN setting_legacy(secrets_section_names, PyNone, settings_module, TRUE, FALSE).v
    ELSE setting(secret_section_names, PyNone, settings_module, TRUE, FALSE).v
ResolvedId == IF ResolvedName.raised THEN PyNone ELSE ResolvedName.v

\* SECRETS.get(key, default)
Get(key, default) ==
    /\ cls = "AWSSecretsManagerSecrets"
    /\ ResolvedName.raised \/ MayCall(ResolvedId)
    /\ Apply("get", ResolvedId, ResolvedSection, key, default, get(key, default))

\* SECRETS[item]
GetItem(item) ==
    /\ cls = "AWSSecretsManagerSecrets"
    /\ ResolvedName.raised \/ MayCall(ResolvedId)
    /\ Apply("__getitem__", ResolvedId, ResolvedSection, item, PyNone, __getitem__(item))

\* SECRETS.get_secrets_section(secrets_name, sections_string, settings_module)
SecretsGetSecretsSection(secrets_name, sections_string) ==
    /\ cls = "Secrets"
    /\ MayCall(secrets_name)
    /\ Apply("get_secrets_section", secrets_name, sections_string, PyNone, PyNone,
             get_secrets_section(secrets_name, sections_string, settings_module))

\* SECRETS.get(key, default), the older class
SecretsGet(key, default) ==
    /\ cls = "Secrets"
    /\ ResolvedName.raised \/ MayCall(ResolvedId)
    /\ Apply("get", ResolvedId, ResolvedSection, key, default, Secrets_get(key, default))

\* SECRETS[item], the older class
SecretsGetItem(item) ==
    /\ cls = "Secrets"
    /\ ResolvedName.raised \/ MayCall(ResolvedId)
    /\ Apply("__getitem__", ResolvedId, ResolvedSection, item, PyNone, Secrets_getitem(item))

Next ==
    \/ \E secret_name \in SecretIds, section \in Sections :
          \/ GetSecretSection(secret_name, section)
          \/ SecretsGetSecretsSection(secret_name, section)
    \/ \E key \in Keys, default \in GetDefaults :
          \/ Get(key, default)
          \/ SecretsGet(key, default)
    \/ \E item \in Keys :
          \/ GetItem(item)
          \/ SecretsGetItem(item)

Spec == Init /\ [][Next]_vars

(***************************************************************************)
(* Claims about the secret cache, checked under Spec.                      *)
(***************************************************************************)
SectionCall == last.fn \in {"get_secret_section", "get_secrets_section"}
AccessorCall == last.fn \in {"get", "__getitem__"}
\* the secrets the store holds with a payload that parses
Answered == {S1, S2}
Payload(id) == json_loads(SecretStore[id]).v
Fetched(id) == id \in DOMAIN secrets

\* C5: with a store that answers, get_secret_value is called exactly once per
\* secret name, on the first call for it; later calls for it neither call the
\* store nor build a client; a cache entry is never removed or replaced.
C5_FetchedOnce ==
    /\ [](\A id \in Answered :
            /\ get_secret_value_calls[id] = (IF Fetched(id) THEN 1 ELSE 0)
            /\ Fetched(id) => secrets[id] = Payload(id))
    /\ [][ /\ \A id \in DOMAIN secrets : id \in DOMAIN secrets' /\ secrets'[id] = secrets[id]
           /\ (last' # last /\ last'.fn # "none" /\ last'.secret_name \in DOMAIN secrets) =>
                 /\ get_client_calls' = get_client_calls
                 /\ get_secret_value_calls' = get_secret_value_calls ]_vars

\* C5's case: both secrets fetched, a later call for the first served from the
\* cache, and the store called once for each.
C5_Witness ==
    /\ last.fn # "none" /\ last.cached /\ last.secret_name = S1 /\ ~last.result.raised
    /\ Fetched(S1) /\ Fetched(S2)
    /\ get_secret_value_calls[S1] = 1 /\ get_secret_value_calls[S2] = 1
    /\ get_client_calls = 2

\* the section path of the last call, cut at its ':'
Segments == split(last.section.v, ":")
RECURSIVE Join(_)
Join(segs) ==
    IF Len(segs) = 1 THEN segs[1] ELSE segs[1] \o <<":">> \o Join(Tail(segs))
\* the value reached after i segments, while every level on the way is a
\* mapping that has the segment
Level(id, i) ==
    LET at[j \in 0..i] == IF j = 0 THEN secrets[id] ELSE at[j - 1].v[Segments[j]]
    IN  at[i]
RECURSIVE Present(_, _)
Present(id, i) ==
    \/ i = 0
    \/ /\ Present(id, i - 1)
       /\ Level(id, i - 1).t = "dict"
       /\ Segments[i] \in DOMAIN Level(id, i - 1).v
FirstAbsent(id) == Min({i \in 1..Len(Segments) : ~Present(id, i)})
PathCall == SectionCall /\ Truthy(last.section) /\ Fetched(last.secret_name)

\* C6 as claimed: with a non-empty section path the call returns the value
\* reached by indexing the payload with the path's segments in order, and
\* fails with a lookup error (KeyError, IndexError) if a segment is absent at
\* its level, the cached payload unmodified.
C6_SectionPath_AsClaimed ==
    PathCall =>
        LET id == last.secret_name
        IN  /\ Join(Segments) = last.section.v
            /\ \A i \in 1..Len(Segments) : \A j \in 1..Len(Segments[i]) : Segments[i][j] # ":"
            /\ secrets[id] = Payload(id)
            /\ IF Present(id, Len(Segments))
               THEN last.result = Return(Level(id, Len(Segments)))
               ELSE last.result.raised /\ last.result.v.t \in {"KeyError", "IndexError"}

\* C6 amended: as above, but the failure is KeyError where the level is a
\* mapping without the segment and TypeError where the level is not a mapping
\* (a list, a string, a number); neither is a domain-specific error.
C6_SectionPath ==
    PathCall =>
        LET id == last.secret_name
        IN  /\ Join(Segments) = last.section.v
            /\ \A i \in 1..Len(Segments) : \A j \in 1..Len(Segments[i]) : Segments[i][j] # ":"
            /\ secrets[id] = Payload(id)
            /\ IF Present(id, Len(Segments))
               THEN last.result = Return(Level(id, Len(Segments)))
               ELSE last.result =
                       IF Level(id, FirstAbsent(id) - 1).t = "dict"
                       THEN Raise(Exc("KeyError", <<Str(Segments[FirstAbsent(id)])>>))
                       ELSE Raise(Exc("TypeError", <<>>))

\* C6's case: path 'a:b:c:d' on {"a": {"b": {"c": 1}}, ...}: the first three
\* segments are there, the fourth is looked up in the number 1, the call
\* fails and the cached payload is as fetched.
C6_Witness ==
    /\ PathCall /\ last.secret_name = S1
    /\ last.section = Str(<<"a", ":", "b", ":", "c", ":", "d">>)
    /\ Present(S1, 3) /\ ~Present(S1, 4)
    /\ last.result.raised
    /\ secrets[S1] = Payload(S1)

\* C7: with an empty or absent section path the section lookup returns the
\* whole cached structure, and get / [] work on the top-level payload, in
\* AWSSecretsManagerSecrets and in the older Secrets alike.
C7_EmptySectionIsWholePayload ==
    (last.fn # "none" /\ ~Truthy(last.section) /\ Fetched(last.secret_name)) =>
        LET whole == secrets[last.secret_name]
        IN  /\ SectionCall => last.result = Return(whole)
            /\ last.fn = "get" =>
                  last.result = IF last.key.v \in DOMAIN whole.v
                                THEN Return(whole.v[last.key.v])
                                ELSE Return(last.default)
            /\ last.fn = "__getitem__" =>
                  last.result = IF last.key.v \in DOMAIN whole.v
                                THEN Return(whole.v[last.key.v])
                                ELSE Raise(Exc("KeyError", <<last.key>>))

\* the section the accessors of the instance's class select for the resolved
\* settings, read from the cache
ResolvedSectionValue ==
    IF cls = "Secrets"
    THEN get_secrets_section(last.secret_name, last.section, settings_module).result
    ELSE get_secret_section(last.secret_name, last.section).result
NameCandidates == IF cls = "Secrets" THEN secrets_name_names.v ELSE secret_name_names.v
NameMissing ==
    \A i \in 1..Len(NameCandidates) :
        /\ NameCandidates[i] \notin DOMAIN settings_module
        /\ NameCandidates[i] \notin DOMAIN environ

\* C8: on a resolved section that is a mapping, get(key, default) returns the
\* value for a key that is present and the default for one that is absent,
\* [] returns the same value and fails with KeyError for an absent key; with
\* the secret-name setting missing both raise SettingKeyNotExists.
C8_GetAndGetItem ==
    AccessorCall =>
        /\ NameMissing => last.result.raised /\ last.result.v.t = "SettingKeyNotExists"
        /\ (~NameMissing /\ Fetched(last.secret_name)
            /\ ~ResolvedSectionValue.raised /\ ResolvedSectionValue.v.t = "dict") =>
              LET section == ResolvedSectionValue.v.v
              IN  IF last.key.v \in DOMAIN section
                  THEN last.result = Return(section[last.key.v])
                  ELSE IF last.fn = "get"
                  THEN last.result = Return(last.default)
                  ELSE last.result = Raise(Exc("KeyError", <<last.key>>))

\* C8's case: get("m", 42) on the section a:b = {"c": 1}, which has no "m".
C8_Witness ==
    /\ last.fn = "get" /\ last.key = Str(<<"m">>) /\ last.default = PyInt(<<"4", "2">>)
    /\ ~NameMissing /\ Fetched(last.secret_name)
    /\ last.section = Str(<<"a", ":", "b">>)
    /\ ~ResolvedSectionValue.raised /\ ResolvedSectionValue.v.t = "dict"
    /\ last.result = Return(PyInt(<<"4", "2">>))

\* a truthy value for one of the names in the source or the environment
Configured(names) ==
    \E i \in 1..Len(names.v) :
        \/ Truthy(getattr(settings_module, names.v[i]))
        \/ Truthy(environ_get(names.v[i]))
NoCredentials ==
    /\ ~(Configured(access_key_names) /\ Configured(secret_key_names))
    /\ ~Configured(profile_names)
\* a call that had to fetch: it named a secret that was not in the cache
FetchingCall(call) == call.fn # "none" /\ call.secret_name # PyNone /\ ~call.cached

\* C9 as claimed: with neither a key pair nor a profile resolvable from the
\* source or the environment a first fetch fails with CredentialsNotExists,
\* the store is not called and the cache gains no entry.
C9_NoCredentials_AsClaimed ==
    NoCredentials =>
        /\ secrets = Empty
        /\ \A id \in SecretIds : get_secret_value_calls[id] = 0
        /\ FetchingCall(last) => last.result = Raise(Exc("CredentialsNotExists", <<>>))

\* no credentials from the settings and, for AWSSecretsManagerSecrets, none
\* from boto3's own provider chain either
NoCredentialsAtAll == NoCredentials /\ (cls = "AWSSecretsManagerSecrets" => ~default_chain)

\* C9 amended: as claimed for the older Secrets; for AWSSecretsManagerSecrets
\* when the session finds no credentials through boto3's own provider chain
\* either.  Every call attempts the fetch (builds a client) again.
C9_NoCredentials ==
    /\ [](NoCredentialsAtAll =>
            /\ secrets = Empty
            /\ \A id \in SecretIds : get_secret_value_calls[id] = 0
            /\ FetchingCall(last) => last.result = Raise(Exc("CredentialsNotExists", <<>>)))
    /\ [][(NoCredentialsAtAll /\ last' # last /\ FetchingCall(last')) =>
             get_client_calls' = get_client_calls + 1]_vars

\* C9's case: no credentials anywhere, a second attempt to fetch has failed
\* like the first, the store was never called and the cache is empty.
C9_Witness ==
    /\ NoCredentialsAtAll /\ cls = "AWSSecretsManagerSecrets"
    /\ FetchingCall(last) /\ last.result = Raise(Exc("CredentialsNotExists", <<>>))
    /\ get_client_calls = 2
    /\ secrets = Empty /\ \A id \in SecretIds : get_secret_value_calls[id] = 0

(***************************************************************************)
(* Threads inside get_secret_section (get_secrets_section in the older     *)
(* class) on the shared SECRETS instance.  A step is one access to         *)
(* self._secrets or to the store; a dict's `in`, item assignment and item  *)
(* read are each atomic in CPython, and everything between them works on   *)
(* locals of the calling thread.  The threads ask for the same secret.     *)
(***************************************************************************)
Threads == 1..MaxThreads

\* the secrets the racing calls ask for, and the sections: none, a path that
\* is in S1's payload, a path that is not
RaceIds == {S1, S2}
RaceSections == {PyNone, Str(<<"a", ":", "b">>), Str(<<"a", ":", "z">>)}

\* a thread's frame: where it is, its arguments and its locals
Frame(pc, secret_name, section) ==
    [pc |-> pc, secret_name |-> secret_name, section |-> section,
     response |-> PyNone, parsed |-> PyNone, entry |-> PyNone, result |-> Return(PyNone)]

InitRace ==
    /\ \E c \in CredentialSettings :
          /\ settings_module = c.source
          /\ environ = c.env
    /\ cls \in {"AWSSecretsManagerSecrets", "Secrets"}
    /\ default_chain \in BOOLEAN
    /\ secrets = Empty
    /\ get_client_calls = 0
    /\ get_secret_value_calls = [id \in SecretIds |-> 0]
    /\ last = NoSecretCall
    /\ \E secret_name \in RaceIds :
          threads \in [Threads -> {Frame("contains", secret_name, section) :
                                      section \in RaceSections}]

\* thread t moves on; what it does not assign, it leaves alone
Step(t, frame) == threads' = [threads EXCEPT ![t] = frame]
Finish(t, result) == Step(t, [threads[t] EXCEPT !.pc = "done", !.result = result])

\* if secret_name not in self._secrets:
Contains(t) ==
    /\ threads[t].pc = "contains"
    /\ Step(t, [threads[t] EXCEPT !.pc = IF threads[t].secret_name \in DOMAIN secrets
                                         THEN "getitem" ELSE "get_client"])
    /\ UNCHANGED <<settings_module, environ, last, cls, secrets, get_client_calls,
                   get_secret_value_calls, default_chain>>

\* client = self.get_client(settings_module=settings_module)
GetClient(t) ==
    /\ threads[t].pc = "get_client"
    /\ LET client == IF cls = "Secrets" THEN Secrets_get_client(settings_module)
                     ELSE get_client(settings_module)
       IN  IF client.raised THEN Finish(t, client)
           ELSE Step(t, [threads[t] EXCEPT !.pc = "get_secret_value"])
    /\ get_client_calls' = get_client_calls + 1
    /\ UNCHANGED <<settings_module, environ, last, cls, secrets, get_secret_value_calls,
                   default_chain>>

\* client.get_secret_value(SecretId=secret_name)['SecretString']
GetSecretValue(t) ==
    /\ threads[t].pc = "get_secret_value"
    /\ LET response == get_secret_value(threads[t].secret_name)
       IN  IF response.raised THEN Finish(t, response)
           ELSE Step(t, [threads[t] EXCEPT !.pc = "json_loads",
                                           !.response = response.v])
    /\ get_secret_value_calls' =
          [get_secret_value_calls EXCEPT ![threads[t].secret_name] = @ + 1]
    /\ UNCHANGED <<settings_module, environ, last, cls, secrets, get_client_calls,
                   default_chain>>

\* json.loads(...): the payload is built in full before it is assigned
JsonLoads(t) ==
    /\ threads[t].pc = "json_loads"
    /\ LET parsed == json_loads(threads[t].response)
       IN  IF parsed.raised THEN Finish(t, parsed)
           ELSE Step(t, [threads[t] EXCEPT !.pc = "setitem", !.parsed = parsed.v])
    /\ UNCHANGED <<settings_module, environ, last, cls, secrets, get_client_calls,
                   get_secret_value_calls, default_chain>>

\* self._secrets[secret_name] = <the parsed payload>
SetItem(t) ==
    /\ threads[t].pc = "setitem"
    /\ secrets' = setitem(secrets, threads[t].secret_name, threads[t].parsed)
    /\ Step(t, [threads[t] EXCEPT !.pc = "getitem"])
    /\ UNCHANGED <<settings_module, environ, last, cls, get_client_calls,
                   get_secret_value_calls, default_chain>>

\* secrets = self._secrets[secret_name]: KeyError if the name is not there
ReadEntry(t) ==
    /\ threads[t].pc = "getitem"
    /\ IF threads[t].secret_name \in DOMAIN secrets
       THEN Step(t, [threads[t] EXCEPT !.pc = "select",
                                       !.entry = secrets[threads[t].secret_name]])
       ELSE Finish(t, Raise(Exc("KeyError", <<threads[t].secret_name>>)))
    /\ UNCHANGED <<settings_module, environ, last, cls, secrets, get_client_calls,
                   get_secret_value_calls, default_chain>>

\* the rest of the call: `if not section: return secrets` and the loop over
\* section.split(':'); the older class splits without the test
Select(t) ==
    /\ threads[t].pc = "select"
    /\ LET section == threads[t].section
           keys == split(section.v, ":")
       IN  IF cls = "Secrets"
           THEN IF section.t # "str" THEN Finish(t, Raise(Exc("AttributeError", <<>>)))
                ELSE Finish(t, descend(threads[t].entry, keys))
           ELSE IF ~Truthy(section) THEN Finish(t, Return(threads[t].entry))
                ELSE Finish(t, descend(threads[t].entry, keys))
    /\ UNCHANGED <<settings_module, environ, last, cls, secrets, get_client_calls,
                   get_secret_value_calls, default_chain>>

NextRace ==
    \E t \in Threads :
        \/ Contains(t)
        \/ GetClient(t)
        \/ GetSecretValue(t)
        \/ JsonLoads(t)
        \/ SetItem(t)
        \/ ReadEntry(t)
        \/ Select(t)

SpecRace == InitRace /\ [][NextRace]_vars

(***************************************************************************)
(* The race on the unlocked cache.                                         *)
(***************************************************************************)
\* the secret the threads ask for
RaceId == threads[1].secret_name

\* get_client gives a client, so that the store is reached and answers
ClientAvailable ==
    IF cls = "Secrets" THEN ~Secrets_get_client(settings_module).raised
    ELSE ~get_client(settings_module).raised

\* what the same call gives when it runs alone on a cache that holds the
\* store's payload
Sequential(t) ==
    LET section == threads[t].section
        path == descend(Payload(RaceId), split(section.v, ":"))
    IN  IF section.t = "str" /\ Len(section.v) > 0 THEN path
        ELSE IF cls = "Secrets" THEN Raise(Exc("AttributeError", <<>>))
        ELSE Return(Payload(RaceId))

AllDone == \A t \in Threads : threads[t].pc = "done"

\* C11: when threads race through the first get_secret_section call for one
\* unfetched identifier and the store answers with one fixed payload, the
\* race is benign: the cache never holds anything for the identifier but the
\* whole parsed payload, every thread that reads the entry finds it and finds
\* that payload, every call ends with what it gives when run alone (the
\* requested section of the payload where the path names one), and when all
\* have finished the cache is exactly identifier -> parsed payload, the store
\* having been called at least once and at most once per thread.
C11_BenignRace ==
    ClientAvailable =>
        /\ \A id \in DOMAIN secrets : id = RaceId /\ secrets[id] = Payload(RaceId)
        /\ \A t \in Threads :
              /\ threads[t].pc = "select" => threads[t].entry = Payload(RaceId)
              /\ threads[t].pc = "done" =>
                    /\ threads[t].entry = Payload(RaceId)
                    /\ threads[t].result = Sequential(t)
                    /\ threads[t].section = Str(<<"a", ":", "b">>) /\ RaceId = S1
                          => threads[t].result = Return(Dict(<<"c">> :> PyInt(<<"1">>)))
        /\ AllDone =>
              /\ secrets = (RaceId :> Payload(RaceId))
              /\ get_secret_value_calls[RaceId] \in 1..MaxThreads
              /\ \A id \in SecretIds \ {RaceId} : get_secret_value_calls[id] = 0

\* C11's case: two threads both found the identifier missing and both called
\* the store, both have finished, one with the section a:b of S1's payload
\* and one with the whole payload, and the cache holds the payload.
C11_Witness ==
    /\ cls = "AWSSecretsManagerSecrets" /\ RaceId = S1
    /\ AllDone
    /\ get_secret_value_calls[S1] >= 2
    /\ get_client_calls >= 2
    /\ threads[1].section = Str(<<"a", ":", "b">>)
    /\ threads[1].result = Return(Dict(<<"c">> :> PyInt(<<"1">>)))
    /\ threads[2].section = PyNone
    /\ threads[2].result = Return(Payload(S1))
    /\ secrets = (S1 :> Payload(S1))
====
